---- MODULE Spec2Model ----
(***************************************************************************)
(* LogScale (src/scale/Log.ts): a logarithmic axis scale.                  *)
(*                                                                         *)
(* Numbers.  JavaScript doubles are modelled in fixed point:               *)
(*   - a linear-space value or a log-space value v is the integer          *)
(*     v * Unit (three decimals);                                          *)
(*   - a normalized position n (the result of normalize, the argument of   *)
(*     scale) is the integer n * NUnit (five decimals);                    *)
(*   - Infinity is the sentinel Inf, -Infinity is -Inf; they compare with  *)
(*     finite values as in IEEE arithmetic, and every arithmetic operator  *)
(*     below treats them explicitly.                                       *)
(*   - NaN is the sentinel NaN; the comparison operators Lt, Le, Gt, Ge    *)
(*     and StrictEq are false on it, as in IEEE arithmetic.                *)
(***************************************************************************)
EXTENDS Integers, Sequences, FiniteSets, TLC

Unit == 1000
NUnit == 100000
Inf == 2000000000
NaN == 2100000000

\* Longest sequence of mutating calls explored.
MaxOps == 3

isNaN(x) == x = NaN

\* isFinite(x)
IsFinite(x) == x # Inf /\ x # -Inf /\ x # NaN

Lt(a, b) == ~isNaN(a) /\ ~isNaN(b) /\ a < b

Le(a, b) == ~isNaN(a) /\ ~isNaN(b) /\ a <= b

Gt(a, b) == Lt(b, a)

Ge(a, b) == Le(b, a)

\* a === b
StrictEq(a, b) == ~isNaN(a) /\ ~isNaN(b) /\ a = b

Abs(x) == IF x < 0 THEN -x ELSE x

Min(a, b) == IF a < b THEN a ELSE b

Max(a, b) == IF a > b THEN a ELSE b

\* a / b rounded to the nearest integer (ties upwards), b > 0.
RoundDiv(a, b) == (a + (b \div 2)) \div b

\* IEEE subtraction a - b.
Sub(a, b) ==
    CASE isNaN(a) \/ isNaN(b) -> NaN
      [] IsFinite(a) /\ IsFinite(b) -> a - b
      [] a = Inf /\ b # Inf -> Inf
      [] a = -Inf /\ b # -Inf -> -Inf
      [] IsFinite(a) /\ b = Inf -> -Inf
      [] IsFinite(a) /\ b = -Inf -> Inf
      [] OTHER -> NaN

Neg(x) == IF isNaN(x) THEN NaN ELSE -x

\* IEEE addition a + b.
Add(a, b) == Sub(a, Neg(b))

\* Math.floor(a / b) * b and Math.ceil(a / b) * b for b >= 0: a division by
\* zero gives an infinity or NaN, and its product with zero is NaN.
FloorTo(a, b) ==
    CASE isNaN(a) \/ ~IsFinite(b) \/ b = 0 -> NaN
      [] ~IsFinite(a) -> a
      [] OTHER -> (a \div b) * b

CeilTo(a, b) ==
    CASE isNaN(a) \/ ~IsFinite(b) \/ b = 0 -> NaN
      [] ~IsFinite(a) -> a
      [] OTHER -> -(((-a) \div b) * b)

(***************************************************************************)
(* Math.log and Math.pow.  Math.log(v) is tabulated for the values the     *)
(* model passes to it, in units of ln(10) / Unit (so that the quotient     *)
(* Math.log(v) / Math.log(base) is computed, as in the code, by a          *)
(* division).  Math.pow is computed digit by digit from tables of          *)
(* 10^(d/10), 10^(d/100) and 10^(d/1000), each scaled by 10^4.             *)
(***************************************************************************)
LnTable ==
    (10 :> -2000) @@ (500 :> -301) @@ (1000 :> 0) @@ (2000 :> 301) @@
    (5000 :> 699) @@ (10000 :> 1000) @@ (100000 :> 2000)

mathLog(v) == IF v = Inf THEN Inf ELSE LnTable[v]

PowT1 == <<10000, 12589, 15849, 19953, 25119, 31623, 39811, 50119, 63096, 79433>>
PowT2 == <<10000, 10233, 10471, 10715, 10965, 11220, 11482, 11749, 12023, 12303>>
PowT3 == <<10000, 10023, 10046, 10069, 10093, 10116, 10139, 10162, 10186, 10209>>

\* 10^(y / Unit), as a linear value (times Unit), for finite y.
Pow10(y) ==
    LET q == y \div Unit
        r == y % Unit
        m1 == RoundDiv(PowT1[(r \div 100) + 1] * PowT2[((r \div 10) % 10) + 1], 10000)
        m == RoundDiv(m1 * PowT3[(r % 10) + 1], 10000)
    IN  IF q >= 1 THEN m * 10^(q - 1)
        ELSE IF q < -6 THEN 0
        ELSE RoundDiv(m, 10^(1 - q))

\* Math.pow(b, y) for b > 1.
mathPow(b, y) ==
    CASE isNaN(y) -> NaN
      [] y = Inf -> Inf
      [] y = -Inf -> 0
      [] OTHER -> Pow10(RoundDiv(y * mathLog(b), Unit))

\* Math.log(v) / Math.log(b), the log-space position of a positive v.
LogOf(v, b) == IF v = Inf THEN Inf ELSE RoundDiv(mathLog(v) * Unit, mathLog(b))

(***************************************************************************)
(* Collaborators of LogScale: util/number, scale/helper, Scale and         *)
(* IntervalScale.                                                          *)
(***************************************************************************)

\* numberUtil.round(x, precision): x.toFixed(precision) read back as a number.
\* A value carries three decimals, so a precision of three or more (the default
\* is ten) leaves it as it is.
round(x, precision) ==
    IF ~IsFinite(x) \/ precision >= 3 THEN x
    ELSE LET k == 10^(3 - precision)
         IN  IF x >= 0 THEN RoundDiv(x, k) * k ELSE -(RoundDiv(-x, k) * k)

DefaultPrecision == 10

\* numberUtil.getPrecision(val): the number of decimals of val.
getPrecision(val) ==
    IF ~IsFinite(val) THEN 0
    ELSE IF val % 1000 = 0 THEN 0
    ELSE IF val % 100 = 0 THEN 1
    ELSE IF val % 10 = 0 THEN 2
    ELSE 3

\* numberUtil.quantity(val) = 10^floor(log10(val)): the largest power of ten
\* that is at most val, for a finite val > 0.
RECURSIVE quantityFrom(_, _)
quantityFrom(val, p) == IF p * 10 > val THEN p ELSE quantityFrom(val, p * 10)

quantity(val) == quantityFrom(val, 1)

\* scaleHelper.contain(val, extent)
helperContain(val, extent) == Ge(val, extent[1]) /\ Le(val, extent[2])

\* scaleHelper.normalize(val, extent), for a finite val
helperNormalize(val, extent) ==
    LET d == Sub(extent[2], extent[1])
        n == Sub(val, extent[1])
    IN  CASE StrictEq(extent[2], extent[1]) -> NUnit \div 2
          [] IsFinite(d) /\ IsFinite(n) ->
                IF d > 0 THEN RoundDiv(n * NUnit, d) ELSE RoundDiv((-n) * NUnit, -d)
          [] IsFinite(n) /\ ~isNaN(d) -> 0
          [] OTHER -> NaN

\* scaleHelper.scale(val, extent) = val * (extent[1] - extent[0]) + extent[0],
\* for a finite val
helperScale(val, extent) ==
    LET d == Sub(extent[2], extent[1])
    IN  CASE IsFinite(d) -> Add(RoundDiv(val * d, NUnit), extent[1])
          [] isNaN(d) \/ val = 0 -> NaN
          [] OTHER -> Add(IF val > 0 THEN d ELSE -d, extent[1])

\* Scale.prototype.unionExtent: widens this._extent by other.
scaleUnionExtent(extent, other) ==
    << IF Lt(other[1], extent[1]) THEN other[1] ELSE extent[1],
       IF Gt(other[2], extent[2]) THEN other[2] ELSE extent[2] >>

\* The extent of a newly constructed Scale.
EmptyExtent == <<Inf, -Inf>>

\* this._niceExtent before calcNiceTicks has set it.
Undefined == <<>>

(***************************************************************************)
(* LogScale.  An instance is a record: extent is this._extent (log space), *)
(* originalExtent is this._originalScale._extent (linear space), and the   *)
(* other fields carry the names of the class's fields.                     *)
(***************************************************************************)

\* new LogScale(): _fixMin and _fixMax are unset (falsy), _niceExtent is unset.
NewLogScale(b) ==
    [ base |-> b,
      extent |-> EmptyExtent,
      originalExtent |-> EmptyExtent,
      fixMin |-> FALSE,
      fixMax |-> FALSE,
      interval |-> 0,
      niceExtent |-> Undefined ]

\* fixRoundingError(val, originalVal)
fixRoundingError(val, originalVal) == round(val, getPrecision(originalVal))

\* toLogSpace with the division by Math.log(base) left out.
toLogSpaceNatural(v, b) == IF Le(v, 0) THEN 0 ELSE mathLog(v)

\* toLogSpace with a value <= 0 replaced by 0.01, as normalize does, instead of
\* being stored as 0.
toLogSpaceFallback(v, b) == IF Le(v, 0) THEN LogOf(Unit \div 100, b) ELSE LogOf(v, b)

\* The branch of setExtent and unionExtent on one boundary: a value <= 0 is
\* stored as 0, a positive one as its logarithm to the base.
toLogSpace(v, b) == IF Le(v, 0) THEN 0 ELSE LogOf(v, b)

\* IntervalScale.prototype.setExtent: stores each boundary that is not NaN.
intervalSetExtent(extent, start, end) ==
    << IF ~isNaN(start) THEN start ELSE extent[1],
       IF ~isNaN(end) THEN end ELSE extent[2] >>

\* LogScale.setExtent(start, end)
setExtent(s, start, end) ==
    [s EXCEPT !.extent =
        intervalSetExtent(s.extent, toLogSpace(start, s.base), toLogSpace(end, s.base))]

\* LogScale.getExtent()
getExtent(s) ==
    LET e0 == mathPow(s.base, s.extent[1])
        e1 == mathPow(s.base, s.extent[2])
    IN  << IF s.fixMin THEN fixRoundingError(e0, s.originalExtent[1]) ELSE e0,
           IF s.fixMax THEN fixRoundingError(e1, s.originalExtent[2]) ELSE e1 >>

\* unionExtent with the pair taken to log space before originalScale is
\* widened with it (the array is changed in place).
unionExtentTransformFirst(s, extent) ==
    LET t == <<toLogSpace(extent[1], s.base), toLogSpace(extent[2], s.base)>>
    IN  [s EXCEPT
            !.originalExtent = scaleUnionExtent(s.originalExtent, t),
            !.extent = scaleUnionExtent(s.extent, t)]

\* LogScale.unionExtent(extent): originalScale is widened with the pair as
\* given, then the pair is taken to log space and widens this._extent.
unionExtent(s, extent) ==
    [s EXCEPT
        !.originalExtent = scaleUnionExtent(s.originalExtent, extent),
        !.extent = scaleUnionExtent(s.extent,
                      <<toLogSpace(extent[1], s.base), toLogSpace(extent[2], s.base)>>)]

\* clampData without the filter.
clampDataNone(v) == v

\* The filter of unionExtentFromData on one boundary.
clampData(v) == IF Le(v, 0) THEN 0 ELSE v

\* LogScale.unionExtentFromData(data, dim), approx = data.getApproximateExtent(dim)
unionExtentFromData(s, approx) ==
    unionExtent(s, <<clampData(approx[1]), clampData(approx[2])>>)

\* The tick count used when approxTickNum is left out.
DefaultTickNum == 10

\* calcNiceTicks, the interval before the loop: quantity(span), times ten when
\* err = approxTickNum / span * interval is at most 0.5 (span > 0).
initialInterval(span, approxTickNum) ==
    LET q == quantity(span)
    IN  IF 2 * approxTickNum * q <= span THEN q * 10 ELSE q

\* growInterval without the loop.
growIntervalNever(interval) == interval

\* calcNiceTicks, the loop: interval *= 10 while 0 < |interval| < 1.
RECURSIVE growInterval(_)
growInterval(interval) ==
    IF ~isNaN(interval) /\ Abs(interval) < Unit /\ Abs(interval) > 0
    THEN growInterval(interval * 10)
    ELSE interval

\* approxTickNum = approxTickNum || 10
tickNum(approxTickNum) == IF approxTickNum = 0 THEN DefaultTickNum ELSE approxTickNum

\* calcNiceTicks returning early only on an infinite span, not on a span <= 0.
calcNiceTicksUnguarded(s, approxTickNum) ==
    LET span == Sub(s.extent[2], s.extent[1])
        interval == IF isNaN(span) THEN NaN
                    ELSE growInterval(initialInterval(span, tickNum(approxTickNum)))
    IN  IF StrictEq(span, Inf) THEN s
        ELSE [s EXCEPT
                !.interval = interval,
                !.niceExtent = << round(CeilTo(s.extent[1], interval), DefaultPrecision),
                                  round(FloorTo(s.extent[2], interval), DefaultPrecision) >>]

\* LogScale.calcNiceTicks(approxTickNum)
calcNiceTicks(s, approxTickNum) ==
    LET n == tickNum(approxTickNum)
        span == Sub(s.extent[2], s.extent[1])
        interval == IF isNaN(span) THEN NaN ELSE growInterval(initialInterval(span, n))
    IN  IF StrictEq(span, Inf) \/ Le(span, 0) THEN s
        ELSE [s EXCEPT
                !.interval = interval,
                !.niceExtent = << round(CeilTo(s.extent[1], interval), DefaultPrecision),
                                  round(FloorTo(s.extent[2], interval), DefaultPrecision) >>]

\* IntervalScale.prototype.calcNiceExtent, called on the LogScale: an extent
\* of equal boundaries is expanded, an extent without a finite span becomes
\* [0, 1], this.calcNiceTicks runs, and the boundaries that are not fixed are
\* moved outwards to multiples of the interval.
intervalCalcNiceExtent(s, splitNumber, optFixMin, optFixMax) ==
    LET e == s.extent
        expandSize == Abs(e[1])
        e1 == IF StrictEq(e[1], e[2])
              THEN IF e[1] # 0
                   THEN IF ~optFixMax
                        THEN <<Sub(e[1], expandSize \div 2), Add(e[2], expandSize \div 2)>>
                        ELSE <<Sub(e[1], expandSize \div 2), e[2]>>
                   ELSE <<e[1], Unit>>
              ELSE e
        e2 == IF ~IsFinite(Sub(e1[2], e1[1])) THEN <<0, Unit>> ELSE e1
        t == calcNiceTicks([s EXCEPT !.extent = e2], splitNumber)
    IN  [t EXCEPT !.extent =
            << IF ~optFixMin THEN round(FloorTo(e2[1], t.interval), DefaultPrecision) ELSE e2[1],
               IF ~optFixMax THEN round(CeilTo(e2[2], t.interval), DefaultPrecision) ELSE e2[2] >>]

\* LogScale.calcNiceExtent(opt)
calcNiceExtent(s, splitNumber, optFixMin, optFixMax) ==
    [intervalCalcNiceExtent(s, splitNumber, optFixMin, optFixMax) EXCEPT
        !.fixMin = optFixMin,
        !.fixMax = optFixMax]

\* IntervalScale.prototype.getTicks, the loop over the nice ticks.
RECURSIVE niceTicksFrom(_, _, _)
niceTicksFrom(tick, last, interval) ==
    IF Le(tick, last)
    THEN <<tick>> \o niceTicksFrom(round(Add(tick, interval), DefaultPrecision), last, interval)
    ELSE <<>>

\* IntervalScale.prototype.getTicks, called on the LogScale: the log-space
\* tick positions, none when the interval is 0 (or NaN).
intervalGetTicks(s, expandToNicedExtent) ==
    IF s.interval = 0 \/ isNaN(s.interval) THEN <<>>
    ELSE LET head == IF Lt(s.extent[1], s.niceExtent[1])
                     THEN IF expandToNicedExtent
                          THEN <<round(Sub(s.niceExtent[1], s.interval), DefaultPrecision)>>
                          ELSE <<s.extent[1]>>
                     ELSE <<>>
             ticks == head \o niceTicksFrom(s.niceExtent[1], s.niceExtent[2], s.interval)
             lastNiceTick == IF Len(ticks) > 0 THEN ticks[Len(ticks)] ELSE s.niceExtent[2]
         IN  IF Gt(s.extent[2], lastNiceTick)
             THEN IF expandToNicedExtent
                  THEN ticks \o <<round(Add(lastNiceTick, s.interval), DefaultPrecision)>>
                  ELSE ticks \o <<s.extent[2]>>
             ELSE ticks

\* hasZero with a strict comparison.
hasZeroStrict(s) == Lt(s.extent[1], 0)

\* getTicks: const hasZero = extent[0] <= 0
hasZero(s) == Le(s.extent[1], 0)

\* getTicks, the callback mapped over the ticks: the linear value of a tick.
tickValue(s, val) ==
    LET p0 == round(mathPow(s.base, val), DefaultPrecision)
        p1 == IF StrictEq(val, s.extent[1]) /\ s.fixMin
              THEN fixRoundingError(p0, s.originalExtent[1]) ELSE p0
    IN  IF StrictEq(val, s.extent[2]) /\ s.fixMax
        THEN fixRoundingError(p1, s.originalExtent[2]) ELSE p1

\* LogScale.getTicks(expandToNicedExtent): the sequence of the ticks' values.
getTicks(s, expandToNicedExtent) ==
    LET ticks == intervalGetTicks(s, expandToNicedExtent)
        finalTicks == [i \in 1..Len(ticks) |-> tickValue(s, ticks[i])]
    IN  IF hasZero(s) THEN <<0>> \o finalTicks ELSE finalTicks

\* LogScale.contain(val)
contain(s, val) ==
    IF Le(val, 0) THEN FALSE
    ELSE helperContain(LogOf(val, s.base), s.extent)

\* LogScale.normalize(val): a val <= 0 is replaced by 0.01.
normalize(s, val) ==
    LET v == IF Le(val, 0) THEN Unit \div 100 ELSE val
    IN  helperNormalize(LogOf(v, s.base), s.extent)

\* LogScale.scale(val): a normalized position val <= 0 is replaced by 0.01.
scale(s, val) ==
    LET v == IF Le(val, 0) THEN NUnit \div 100 ELSE val
    IN  mathPow(s.base, helperScale(v, s.extent))

(***************************************************************************)
(* The state machine: one LogScale and the calls its owner (the axis)      *)
(* makes on it.  getExtent, getTicks, contain, normalize and scale change  *)
(* nothing and are the operators above.                                    *)
(***************************************************************************)

\* Linear-space values passed by the caller: -5, 0, 0.5, 1 and 100.
Vals == {-5000, 0, 500, 1000, 100000}

\* Values of the base field: 2 and 10 (the default).
Bases == {2000, 10000}

DefaultBase == 10000

\* Pairs (min, max) passed to unionExtent.
Pairs == {p \in Vals \X Vals : p[1] <= p[2]}

\* Pairs passed to setExtent: in either order, the end possibly Infinity.
SetPairs == Vals \X (Vals \cup {Inf})

\* What data.getApproximateExtent(dim) returns: a pair, or [Infinity,
\* -Infinity] when the dimension holds no value.
DataExtents == Pairs \cup {EmptyExtent}

\* approxTickNum and opt.splitNumber; 0 stands for an argument left out.
TickNums == {0, 3, 10}

VARIABLES
    logScale,   \* the LogScale instance
    twin,       \* a second LogScale, given the same calls with every lower
                \* bound <= 0 replaced by 1
    fed,        \* elementwise min / max of the pairs passed to unionExtent
    builtLo,    \* the smallest lower bound the extent was built from: the
                \* start of the last setExtent and the minimums unioned since
    lastSet,    \* the arguments of the last setExtent
    approx,     \* what the accessor returned at the last unionExtentFromData
    lastOp,     \* the name of the last call
    nOps        \* the number of calls so far

vars == <<logScale, twin, fed, builtLo, lastSet, approx, lastOp, nOps>>

\* A lower bound <= 0 replaced by 1, for the twin.
LowerAsOne(v) == IF v <= 0 THEN Unit ELSE v

\* The scale as constructed, with the base field as its owner assigns it
\* before the first call (10 when it assigns none).
Init ==
    /\ \E b \in Bases : logScale = NewLogScale(b) /\ twin = NewLogScale(b)
    /\ fed = EmptyExtent
    /\ builtLo = Inf
    /\ lastSet = EmptyExtent
    /\ approx = EmptyExtent
    /\ lastOp = "new"
    /\ nOps = 0

SetExtent ==
    /\ nOps < MaxOps
    /\ \E p \in SetPairs :
        /\ logScale' = setExtent(logScale, p[1], p[2])
        /\ twin' = setExtent(twin, LowerAsOne(p[1]), p[2])
        /\ builtLo' = p[1]
        /\ lastSet' = p
    /\ lastOp' = "setExtent"
    /\ nOps' = nOps + 1
    /\ UNCHANGED <<fed, approx>>

UnionExtent ==
    /\ nOps < MaxOps
    /\ \E p \in Pairs :
        /\ logScale' = unionExtent(logScale, p)
        /\ twin' = unionExtent(twin, <<LowerAsOne(p[1]), p[2]>>)
        /\ fed' = scaleUnionExtent(fed, p)
        /\ builtLo' = Min(builtLo, p[1])
    /\ lastOp' = "unionExtent"
    /\ nOps' = nOps + 1
    /\ UNCHANGED <<lastSet, approx>>

UnionExtentFromData ==
    /\ nOps < MaxOps
    /\ \E p \in DataExtents :
        /\ logScale' = unionExtentFromData(logScale, p)
        /\ twin' = unionExtentFromData(twin, <<LowerAsOne(p[1]), p[2]>>)
        /\ fed' = scaleUnionExtent(fed, <<clampData(p[1]), clampData(p[2])>>)
        /\ builtLo' = Min(builtLo, clampData(p[1]))
        /\ approx' = p
    /\ lastOp' = "unionExtentFromData"
    /\ nOps' = nOps + 1
    /\ UNCHANGED lastSet

CalcNiceTicks ==
    /\ nOps < MaxOps
    /\ \E n \in TickNums :
        /\ logScale' = calcNiceTicks(logScale, n)
        /\ twin' = calcNiceTicks(twin, n)
    /\ lastOp' = "calcNiceTicks"
    /\ nOps' = nOps + 1
    /\ UNCHANGED <<fed, builtLo, lastSet, approx>>

CalcNiceExtent ==
    /\ nOps < MaxOps
    /\ \E n \in TickNums, optFixMin \in BOOLEAN, optFixMax \in BOOLEAN :
        /\ logScale' = calcNiceExtent(logScale, n, optFixMin, optFixMax)
        /\ twin' = calcNiceExtent(twin, n, optFixMin, optFixMax)
    /\ lastOp' = "calcNiceExtent"
    /\ nOps' = nOps + 1
    /\ UNCHANGED <<fed, builtLo, lastSet, approx>>

Next ==
    \/ SetExtent
    \/ UnionExtent
    \/ UnionExtentFromData
    \/ CalcNiceTicks
    \/ CalcNiceExtent

Spec == Init /\ [][Next]_vars

\* The accumulation phase alone: the extent is only ever unioned.
NextUnion ==
    \/ UnionExtent
    \/ UnionExtentFromData

SpecUnion == Init /\ [][NextUnion]_vars

\* The calls made before calcNiceExtent: the extent is set and unioned, and
\* the ticks are computed from it.
NextTicks ==
    \/ SetExtent
    \/ UnionExtent
    \/ UnionExtentFromData
    \/ CalcNiceTicks

SpecTicks == Init /\ [][NextTicks]_vars

TypeOK ==
    /\ logScale.base \in Bases
    /\ logScale.fixMin \in BOOLEAN /\ logScale.fixMax \in BOOLEAN
    /\ Len(logScale.extent) = 2 /\ Len(logScale.originalExtent) = 2
    /\ Len(logScale.niceExtent) \in {0, 2}
    /\ nOps \in 0..MaxOps

(***************************************************************************)
(* The claims.                                                             *)
(***************************************************************************)

\* x equals v within rounding tolerance: 0.2 % of v and one unit of the last
\* decimal.
Approx(x, v) ==
    IF IsFinite(v) THEN IsFinite(x) /\ Abs(x - v) <= (Abs(v) \div 500) + 1 ELSE x = v

\* The log-space span extent[1] - extent[0] of the scale.
SpanOf(s) == Sub(s.extent[2], s.extent[1])

\* C1: on a freshly constructed LogScale with base 10, after one unionExtent
\* with a pair whose lower bound is <= 0, getExtent() returns the minimum 0.
C1_FreshUnionMinIsZero ==
    (nOps = 1 /\ lastOp = "unionExtent" /\ logScale.base = DefaultBase /\ fed[1] <= 0)
        => getExtent(logScale)[1] = 0

\* C2: contain(v) is false for every v <= 0, and after any sequence of
\* unionExtent calls contain(x) is true for every (positive) x strictly between
\* the smallest lower bound and the largest upper bound passed to them.
C2_ContainInsideUnion ==
    /\ \A v \in Vals : v <= 0 => ~contain(logScale, v)
    /\ \A x \in Vals : (x > 0 /\ fed[1] < x /\ x < fed[2]) => contain(logScale, x)

\* C3: after setExtent / unionExtent / unionExtentFromData calls (and
\* calcNiceTicks, which leaves the extent alone) that built the extent minimum
\* from a lower bound <= 0, getTicks() returns a sequence whose first element
\* is 0, whatever the delegated ticks and whatever expandToNicedExtent.
C3_ZeroTickFirst ==
    builtLo <= 0 =>
        \A x \in BOOLEAN :
            LET t == getTicks(logScale, x)
            IN  /\ Len(t) = Len(intervalGetTicks(logScale, x)) + 1
                /\ t[1] = 0

C3_Witness ==
    /\ builtLo <= 0
    /\ lastOp = "calcNiceTicks"
    /\ Len(intervalGetTicks(logScale, FALSE)) >= 2
    /\ getTicks(logScale, FALSE)[1] = 0

\* C4: round-trip law: for every positive v that the (finite) extent contains,
\* the lower bound included, scale(normalize(v)) equals v within tolerance.
C4_RoundTrip ==
    \A v \in Vals :
        (v > 0 /\ IsFinite(logScale.extent[1]) /\ IsFinite(logScale.extent[2])
            /\ contain(logScale, v))
        => Approx(scale(logScale, normalize(logScale, v)), v)

\* C5: a unionExtentFromData whose accessor reports [lo, hi] leaves the scale
\* in the state a unionExtent([max(lo, 0), max(hi, 0)]) from the same prior
\* state leaves it in.
C5_FromDataIsClampedUnion ==
    [][ lastOp' = "unionExtentFromData" /\ nOps' = nOps + 1
        => logScale' = unionExtent(logScale, <<Max(approx'[1], 0), Max(approx'[2], 0)>>) ]_vars

C5_Witness ==
    /\ lastOp = "unionExtentFromData"
    /\ approx[1] < 0
    /\ logScale.originalExtent[1] = 0
    /\ logScale.extent[1] = 0

\* C6: calcNiceTicks changes nothing when the span is Infinity or <= 0; when
\* the span is finite and positive it stores an interval and the nice extent:
\* the multiples of the interval next inside the extent.
C6_DegenerateSpanNoOp ==
    [][ lastOp' = "calcNiceTicks" /\ nOps' = nOps + 1
        => LET span == SpanOf(logScale)
               e == logScale.extent
               i == logScale'.interval
               ne == logScale'.niceExtent
           IN  /\ (StrictEq(span, Inf) \/ Le(span, 0)) => logScale' = logScale
               /\ (IsFinite(span) /\ span > 0) =>
                    /\ logScale'.extent = e
                    /\ i > 0
                    /\ ne # Undefined
                    /\ ne[1] % i = 0 /\ ne[1] >= e[1] /\ ne[1] < e[1] + i
                    /\ ne[2] % i = 0 /\ ne[2] <= e[2] /\ ne[2] > e[2] - i ]_vars

C6_Witness ==
    /\ lastOp = "calcNiceTicks"
    /\ StrictEq(logScale.extent[1], logScale.extent[2])
    /\ logScale.interval = Unit
    /\ logScale.niceExtent = <<0, Unit>>

\* x is v rounded to precision decimals, v itself being known within tolerance.
RoundedTo(x, v, precision) ==
    IF IsFinite(v)
    THEN /\ IsFinite(x)
         /\ getPrecision(x) <= precision
         /\ Abs(x - v) <= (Abs(v) \div 500) + 1 + (IF precision >= 3 THEN 0 ELSE (10^(3 - precision)) \div 2)
    ELSE x = v

\* C7 as stated: for positive a and b, getExtent() after setExtent(a, b)
\* returns [a, b] within tolerance when fixMin / fixMax are false, and each
\* boundary rounded to the decimal precision of a, of b, when they are true.
C7_SetThenGetPrecisionOfArgs ==
    (lastOp = "setExtent" /\ lastSet[1] > 0 /\ lastSet[2] > 0) =>
        LET g == getExtent(logScale)
        IN  /\ IF logScale.fixMin
               THEN RoundedTo(g[1], lastSet[1], getPrecision(lastSet[1]))
               ELSE Approx(g[1], lastSet[1])
            /\ IF logScale.fixMax
               THEN RoundedTo(g[2], lastSet[2], getPrecision(lastSet[2]))
               ELSE Approx(g[2], lastSet[2])

\* C7 amended: with fixMin / fixMax true each boundary is rounded to the
\* decimal precision of originalScale's boundary, which setExtent does not
\* write, not of a and b.
C7_SetThenGetPrecisionOfOriginal ==
    (lastOp = "setExtent" /\ lastSet[1] > 0 /\ lastSet[2] > 0) =>
        LET g == getExtent(logScale)
        IN  /\ IF logScale.fixMin
               THEN RoundedTo(g[1], lastSet[1], getPrecision(logScale.originalExtent[1]))
               ELSE Approx(g[1], lastSet[1])
            /\ IF logScale.fixMax
               THEN RoundedTo(g[2], lastSet[2], getPrecision(logScale.originalExtent[2]))
               ELSE Approx(g[2], lastSet[2])

C7_Witness ==
    /\ lastOp = "setExtent"
    /\ logScale.fixMin /\ logScale.fixMax
    /\ lastSet = <<500, 100000>>
    /\ logScale.originalExtent = EmptyExtent
    /\ getExtent(logScale) = <<1000, 100000>>

\* C8: a unionExtent never raises the log-space lower bound and never lowers
\* the upper bound, and originalScale's extent is always the elementwise
\* min / max of the linear pairs passed to unionExtent so far.
C8_UnionWidens ==
    /\ [](logScale.originalExtent = fed)
    /\ [][ lastOp' \in {"unionExtent", "unionExtentFromData"} /\ nOps' = nOps + 1
            => /\ ~Gt(logScale'.extent[1], logScale.extent[1])
               /\ ~Lt(logScale'.extent[2], logScale.extent[2]) ]_vars

C8_Witness ==
    /\ lastOp = "unionExtent"
    /\ nOps = 2
    /\ fed = <<-5000, 100000>>
    /\ logScale.originalExtent = <<-5000, 100000>>
    /\ logScale.extent = <<0, LogOf(100000, logScale.base)>>

\* C9 as stated: for every extent of finite positive span and every
\* approxTickCount, the interval that reaches the loop of calcNiceTicks
\* already has absolute value >= 1, so the loop's body never runs.
C9_LoopNeverRuns ==
    \A n \in TickNums :
        LET span == SpanOf(logScale)
        IN  (IsFinite(span) /\ span > 0) => Abs(initialInterval(span, tickNum(n))) >= Unit

\* C9 amended: the loop's body runs exactly when the interval that reaches it
\* is below 1, which needs a span below 1; and the interval calcNiceTicks
\* stores is always at least 1.
C9_LoopRunsBelowOne ==
    \A n \in TickNums :
        LET span == SpanOf(logScale)
            before == initialInterval(span, tickNum(n))
            after == calcNiceTicks(logScale, n).interval
        IN  (IsFinite(span) /\ span > 0) =>
                /\ span >= Unit => before >= Unit
                /\ after >= Unit
                /\ after = IF before < Unit THEN Unit ELSE before

C9_Witness ==
    /\ lastOp = "calcNiceTicks"
    /\ IsFinite(SpanOf(logScale)) /\ SpanOf(logScale) > 0
    /\ \A n \in TickNums : initialInterval(SpanOf(logScale), tickNum(n)) < Unit
    /\ logScale.interval = Unit

\* The parts of C10 that hold: getTicks prepends the 0 tick exactly when the
\* log-space lower bound is <= 0, which is the case whenever the smallest
\* lower bound the extent was built from is <= 1.
ZeroTickRule ==
    /\ \A x \in BOOLEAN :
        LET t == getTicks(logScale, x)
            d == intervalGetTicks(logScale, x)
        IN  IF Le(logScale.extent[1], 0)
            THEN Len(t) = Len(d) + 1 /\ t[1] = 0
            ELSE Len(t) = Len(d) /\ \A i \in 1..Len(t) : t[i] # 0
    /\ builtLo <= Unit <=> Le(logScale.extent[1], 0)

====
